---- MODULE Spec2Model ----
(***************************************************************************)
(* Model of the bartender-journal feed pipeline: the cursor codec          *)
(* (backend/app/main.py encode_cursor / decode_cursor), the cache-aside    *)
(* helpers (backend/app/cache.py) and the request handlers list_posts,     *)
(* create_post and create_comment (backend/app/main.py).                   *)
(*                                                                         *)
(* Strings are sequences of byte values; a cursor token is a sequence of   *)
(* base64 alphabet indices (0..63), with PadChar for '=' and any larger    *)
(* value for a character outside the alphabet.                             *)
(***************************************************************************)
EXTENDS Integers, Sequences, FiniteSets, TLC

\* ------------------------------------------------------------- bounds
MaxSec == 1            \* datetimes of the codec runs: seconds 0..MaxSec
MaxUuid == 16          \* uuids of the codec runs: 0..MaxUuid
MaxClock == 1          \* the store clock runs 0..MaxClock seconds
MaxPosts == 3          \* posts the store may hold
MaxComments == 1       \* comments the store may hold
MaxWrites == 3         \* rows stored in a run of the writes alone

\* ------------------------------------------------- program constants
TicksPerSec == 10      \* sub-second resolution of a datetime, in ticks
MinLimit == 1          \* main.py:165  max(1, ...)
MaxLimit == 50         \* main.py:165  min(limit, 50)
DefaultLimit == 10     \* main.py:161  limit: int = 10
FeedTtl == 5           \* main.py:221  ttl_seconds=5
PadChar == 64          \* '=' in a token (main.py:95, main.py:100)
JunkChar == 65         \* a character outside the base64 alphabet

\* A raised exception is a value outside the range of the results: FailInt
\* for an operation that returns a number, FailBytes for one that returns a
\* byte string, FailDict for json.loads, InvalidCursor for decode_cursor.
FailInt == -1
FailBytes == <<-1>>
FailDict == << <<FailBytes, FailBytes>> >>
InvalidCursor == <<FailInt, FailInt>>

\* ------------------------------------------------------- byte strings
Quote == 34
Space == 32
Colon == 58
Comma == 44
LBrace == 123
RBrace == 125
LBracket == 91
RBracket == 93
Dot == 46
Dash == 45
Backslash == 92

KeyCreatedAt == <<99, 114, 101, 97, 116, 101, 100, 95, 97, 116>>  \* created_at
KeyId == <<105, 100>>                                             \* id

IsDigit(b) == b >= 48 /\ b <= 57
DigitChar(d) == 48 + d
HexChar(d) == IF d < 10 THEN 48 + d ELSE 87 + d   \* lower case, as str(uuid)
\* uuid.UUID() lower-cases nothing itself: int(hex, 16) takes both cases.
HexVal(b) ==
    IF b >= 48 /\ b <= 57 THEN b - 48
    ELSE IF b >= 97 /\ b <= 102 THEN b - 87
    ELSE IF b >= 65 /\ b <= 70 THEN b - 55
    ELSE -1
IsJsonSpace(b) == b \in {9, 10, 13, 32}

\* datetime.isoformat(): the fraction is written only when it is not zero.
\* A datetime is a tick count; seconds are two digits, the fraction one.
isoformat(dt) ==
    LET s == dt \div TicksPerSec
        f == dt % TicksPerSec
        base == <<DigitChar((s \div 10) % 10), DigitChar(s % 10)>>
    IN  IF f = 0 THEN base ELSE base \o <<Dot, DigitChar(f)>>

\* datetime.fromisoformat(): Fail (ValueError) unless the text is a datetime.
fromisoformat(txt) ==
    IF Len(txt) = 2 /\ IsDigit(txt[1]) /\ IsDigit(txt[2])
    THEN ((txt[1] - 48) * 10 + (txt[2] - 48)) * TicksPerSec
    ELSE IF Len(txt) = 4 /\ IsDigit(txt[1]) /\ IsDigit(txt[2]) /\ txt[3] = Dot
            /\ IsDigit(txt[4])
    THEN ((txt[1] - 48) * 10 + (txt[2] - 48)) * TicksPerSec + (txt[4] - 48)
    ELSE FailInt

\* str(uuid): hex digits in dash-separated groups (here two groups of one).
uuid_str(u) == <<HexChar((u \div 16) % 16), Dash, HexChar(u % 16)>>

\* uuid.UUID(text): strips the dashes, then needs exactly the hex digits.
StripDashes(txt) == SelectSeq(txt, LAMBDA b : b # Dash)
uuid_parse(txt) ==
    LET h == StripDashes(txt)
    IN  IF Len(h) = 2 /\ HexVal(h[1]) >= 0 /\ HexVal(h[2]) >= 0
        THEN HexVal(h[1]) * 16 + HexVal(h[2])
        ELSE FailInt

\* json.dumps({"created_at": a, "id": b}): keys in insertion order, ", " and
\* ": " as separators.
json_dumps_cursor(a, b) ==
    <<LBrace, Quote>> \o KeyCreatedAt \o <<Quote, Colon, Space, Quote>> \o a
        \o <<Quote, Comma, Space, Quote>> \o KeyId
        \o <<Quote, Colon, Space, Quote>> \o b \o <<Quote, RBrace>>

\* ---------------------------------------------------------- base64
\* base64.urlsafe_b64encode: three bytes give four characters; one or two
\* bytes left over give two or three characters and the padding.
b64encode(bytes) ==
    LET n == Len(bytes)
        byte(k) == IF k <= n THEN bytes[k] ELSE 0
        group(g) == byte(3 * g + 1) * 65536 + byte(3 * g + 2) * 256 + byte(3 * g + 3)
        char(i) ==
            LET g == (i - 1) \div 4
                pos == (i - 1) % 4
            IN  IF pos = 0 THEN group(g) \div 262144
                ELSE IF pos = 1 THEN (group(g) \div 4096) % 64
                ELSE IF pos = 2 THEN
                    (IF 3 * g + 2 <= n THEN (group(g) \div 64) % 64 ELSE PadChar)
                ELSE (IF 3 * g + 3 <= n THEN group(g) % 64 ELSE PadChar)
    IN  [i \in 1..(4 * ((n + 2) \div 3)) |-> char(i)]

RECURSIVE rstrip_pad(_)
rstrip_pad(tok) ==
    IF Len(tok) > 0 /\ tok[Len(tok)] = PadChar
    THEN rstrip_pad(SubSeq(tok, 1, Len(tok) - 1))
    ELSE tok

\* "=" * (-len(cursor) % 4)
padding(tok) == [i \in 1..((4 - (Len(tok) % 4)) % 4) |-> PadChar]

\* binascii.a2b_base64, not strict.  The scan keeps quad_pos, the number of
\* data characters read modulo 4, and pads, the pad characters since the last
\* data character.  A character outside the alphabet is skipped; a pad
\* character with quad_pos >= 2 and quad_pos + pads + 1 >= 4 ends the scan
\* with what was decoded so far; the end of the text with quad_pos # 0 is an
\* error.
IsData(ch) == ch < PadChar
QuadPos(tok, i) == Cardinality({j \in 1..(i - 1) : IsData(tok[j])}) % 4
PadsSince(tok, i) ==
    Cardinality({j \in 1..(i - 1) :
        tok[j] = PadChar /\ \A k \in (j + 1)..(i - 1) : ~IsData(tok[k])})
ScanEnd(tok) ==
    LET stops == {i \in 1..Len(tok) :
                    /\ tok[i] = PadChar
                    /\ QuadPos(tok, i) >= 2
                    /\ QuadPos(tok, i) + PadsSince(tok, i) + 1 >= 4}
    IN  IF stops = {} THEN Len(tok) + 1
        ELSE CHOOSE i \in stops : \A j \in stops : i <= j

b64decode(tok) ==
    LET end == ScanEnd(tok)
        data == SelectSeq(SubSeq(tok, 1, end - 1), IsData)
        n == Len(data)
        rem == n % 4
        nbytes == 3 * (n \div 4) + (IF rem = 0 THEN 0 ELSE rem - 1)
        byte(k) ==
            LET g == 4 * ((k - 1) \div 3)
                pos == (k - 1) % 3
            IN  IF pos = 0 THEN data[g + 1] * 4 + (data[g + 2] \div 16)
                ELSE IF pos = 1 THEN (data[g + 2] % 16) * 16 + (data[g + 3] \div 4)
                ELSE (data[g + 3] % 4) * 64 + data[g + 4]
    IN  IF end > Len(tok) /\ rem # 0 THEN FailBytes
        ELSE [k \in 1..nbytes |-> byte(k)]

\* bytes.decode("utf-8"): the payloads here are ASCII; a byte above 127 that
\* b64decode may produce from a damaged token does not start a valid sequence
\* in any of them.
utf8_decode(bytes) ==
    IF \E i \in 1..Len(bytes) : bytes[i] > 127 THEN FailBytes ELSE bytes

\* ------------------------------------------------------------- json
\* json.loads on the texts a cursor can carry: an object whose keys and values
\* are strings, with JSON white space between the tokens.  Anything else in
\* the text (another value type, an escape, trailing data, a text that ends
\* early) makes the cursor invalid downstream: FailDict.
RECURSIVE skip_ws(_, _)
skip_ws(txt, i) ==
    IF i <= Len(txt) /\ IsJsonSpace(txt[i]) THEN skip_ws(txt, i + 1) ELSE i

RECURSIVE scan_string(_, _)
\* the index of the closing quote of a string whose body starts at i, or 0
scan_string(txt, i) ==
    IF i > Len(txt) THEN 0
    ELSE IF txt[i] = Quote THEN i
    ELSE IF txt[i] = Backslash \/ txt[i] < Space THEN 0
    ELSE scan_string(txt, i + 1)

\* [ok, val, next]: the string that starts at i
parse_string(txt, i) ==
    IF i > Len(txt) \/ txt[i] # Quote THEN [ok |-> FALSE, val |-> <<>>, next |-> i]
    ELSE LET j == scan_string(txt, i + 1)
         IN  IF j = 0 THEN [ok |-> FALSE, val |-> <<>>, next |-> i]
             ELSE [ok |-> TRUE, val |-> SubSeq(txt, i + 1, j - 1), next |-> j + 1]

RECURSIVE parse_members(_, _, _)
\* the members of an object from i on, after "{" or ","; acc holds the pairs
parse_members(txt, i, acc) ==
    LET k == parse_string(txt, skip_ws(txt, i)) IN
    IF ~k.ok THEN FailDict
    ELSE LET c == skip_ws(txt, k.next) IN
         IF c > Len(txt) \/ txt[c] # Colon THEN FailDict
         ELSE LET v == parse_string(txt, skip_ws(txt, c + 1)) IN
              IF ~v.ok THEN FailDict
              ELSE LET e == skip_ws(txt, v.next)
                       got == Append(acc, <<k.val, v.val>>)
                   IN  IF e > Len(txt) THEN FailDict
                       ELSE IF txt[e] = Comma THEN parse_members(txt, e + 1, got)
                       ELSE IF txt[e] = RBrace
                       THEN (IF skip_ws(txt, e + 1) > Len(txt) THEN got ELSE FailDict)
                       ELSE FailDict

json_loads(txt) ==
    LET i == skip_ws(txt, 1) IN
    IF i > Len(txt) \/ txt[i] # LBrace THEN FailDict
    ELSE LET j == skip_ws(txt, i + 1) IN
         IF j <= Len(txt) /\ txt[j] = RBrace
         THEN (IF skip_ws(txt, j + 1) > Len(txt) THEN <<>> ELSE FailDict)
         ELSE parse_members(txt, j, <<>>)

\* data[key]: the last member of that name; FailBytes is the KeyError
dict_get(data, key) ==
    LET hits == {n \in 1..Len(data) : data[n][1] = key}
    IN  IF hits = {} THEN FailBytes
        ELSE data[CHOOSE n \in hits : \A m \in hits : m <= n][2]

\* ------------------------------------------------------ cursor codec
\* encode_cursor writing the timestamp to the second, as
\* created_at.isoformat(timespec="seconds") would
encode_cursor_to_seconds(created_at, post_id) ==
    LET whole == created_at - (created_at % TicksPerSec)
        raw == json_dumps_cursor(isoformat(whole), uuid_str(post_id))
    IN  rstrip_pad(b64encode(raw))

\* main.py:92-95
encode_cursor(created_at, post_id) ==
    LET raw == json_dumps_cursor(isoformat(created_at), uuid_str(post_id))
    IN  rstrip_pad(b64encode(raw))

\* main.py:98-105: any exception becomes HTTPException(400), here
\* InvalidCursor; otherwise the pair <<created_at, id>>.
decode_cursor(cursor) ==
    LET raw == b64decode(cursor \o padding(cursor)) IN
    IF raw = FailBytes THEN InvalidCursor
    ELSE LET text == utf8_decode(raw) IN
         IF text = FailBytes THEN InvalidCursor
         ELSE LET data == json_loads(text) IN
              IF data = FailDict THEN InvalidCursor
              ELSE LET c == dict_get(data, KeyCreatedAt)
                       u == dict_get(data, KeyId)
                   IN  IF c = FailBytes \/ u = FailBytes THEN InvalidCursor
                       ELSE LET dt == fromisoformat(c)
                                id == uuid_parse(u)
                            IN  IF dt = FailInt \/ id = FailInt THEN InvalidCursor
                                ELSE <<dt, id>>

\* ------------------------------------------------------------ state
VARIABLES
    settings,   \* settings.py:50 the Settings object: field name -> value
    _redis,     \* cache.py:11 the module's client, NoClient until created
    redis_up,   \* whether the redis server answers (else RedisError)
    cache,      \* the redis keyspace: a set of [key, value, exp]
    posts,      \* table posts
    comments,   \* table comments
    now,        \* the clock, in seconds
    reqs,       \* the requests being served, by slot
    walk,       \* a client following next_cursor from the empty cursor
    codec,      \* a run of the cursor codec alone: [in, tok, out, intact]
    reads       \* the last two list_posts responses with no write between

vars ==
    <<settings, _redis, redis_up, cache, posts, comments, now, reqs, walk, codec, reads>>

NoneStr == "None"          \* Python's None where the other values are strings
NoClient == "None"
Client == "Redis"
NoCursor == <<>>           \* cursor=None and cursor="" alike: both falsy
RedisUrl == "redis://redis:6379/0"

\* settings.py:13-24: the fields class Settings declares, with their defaults.
\* model_config has extra="ignore": a REDIS_URL in the environment or in .env
\* is dropped, and the object has no other attribute.
DeclaredSettings ==
    [app_name |-> "Bartender Journal API", environment |-> "dev",
     cors_origins |-> "*", database_url |-> "postgresql+asyncpg",
     jwt_secret_key |-> "dev-change-me", jwt_algorithm |-> "HS256",
     jwt_access_token_expires_minutes |-> "1440", public_base_url |-> NoneStr]

\* pydantic BaseModel.__getattr__: a name that is no field raises
\* AttributeError.
HasSetting(name) == name \in DOMAIN settings

Users == {"u1"}
Username(u) == "alice"
Slots == {1, 2}
PostIds == 1..MaxPosts
CommentIds == 1..MaxComments
PostTypes == {"text", "link", "photo"}      \* schemas.py:10-13

\* ------------------------------------------------------ cache-aside
\* cache.py:14-22.  [raised, client, made]: raised is the AttributeError of
\* reading settings.redis_url; made says the global was assigned (line 21).
get_redis ==
    IF _redis # NoClient THEN [raised |-> FALSE, client |-> _redis, made |-> FALSE]
    ELSE IF ~HasSetting("redis_url")
    THEN [raised |-> TRUE, client |-> NoClient, made |-> FALSE]
    ELSE IF settings["redis_url"] \in {NoneStr, ""}
    THEN [raised |-> FALSE, client |-> NoClient, made |-> FALSE]
    ELSE [raised |-> FALSE, client |-> Client, made |-> TRUE]

\* redis GET: the value under the key if it has not expired
Live(key) == {e \in cache : e.key = key /\ e.exp > now}

\* f"posts:limit={limit}:cursor={cursor or ''}" (main.py:168): the limit is
\* an integer, so the text determines the pair and the pair the text.
cache_key(limit, cursor) == <<"posts", limit, cursor>>

\* ------------------------------------------------------------ planner
\* order_by(desc(Post.created_at), desc(Post.id)), main.py:177
Before(a, b) ==
    \/ a.created_at > b.created_at
    \/ (a.created_at = b.created_at /\ a.id > b.id)

RECURSIVE SortDesc(_)
SortDesc(S) ==
    IF S = {} THEN <<>>
    ELSE LET first == CHOOSE a \in S : \A b \in S \ {a} : Before(a, b)
         IN  <<first>> \o SortDesc(S \ {first})

Take(seq, n) == SubSeq(seq, 1, IF Len(seq) < n THEN Len(seq) ELSE n)

\* the keyset predicate, main.py:183-186
StrictlyOlder(p, created_at, post_id) ==
    \/ p.created_at < created_at
    \/ (p.created_at = created_at /\ p.id < post_id)

\* main.py:174-189: the rows of the query q, no cursor when bound = <<>>
SelectPosts(table, n, bound) ==
    LET cand == IF bound = <<>> THEN table
                ELSE {p \in table : StrictlyOlder(p, bound[1], bound[2])}
    IN  Take(SortDesc(cand), n)

\* main.py:165
ClampLimit(limit) ==
    LET low == IF limit < MaxLimit THEN limit ELSE MaxLimit
    IN  IF low > MinLimit THEN low ELSE MinLimit

\* main.py:198-201 and counts.get(p.id, 0) of main.py:213
CommentCount(table, post_id) == Cardinality({c \in table : c.post_id = post_id})

\* main.py:203-216
PostResponse(p, table) ==
    [id |-> p.id, created_at |-> p.created_at, type |-> p.type,
     title |-> p.title, body |-> p.body, link_url |-> p.link_url,
     image_url |-> p.image_url,
     author_name |-> IF p.author_id # NoneStr THEN Username(p.author_id)
                     ELSE p.author_name,
     comment_count |-> CommentCount(table, p.id)]

\* main.py:218
NextCursor(rows, has_more) ==
    IF has_more /\ Len(rows) > 0
    THEN encode_cursor(rows[Len(rows)].created_at, rows[Len(rows)].id)
    ELSE NoCursor

NoPage == [items |-> <<>>, next_cursor |-> NoCursor]

\* page.model_dump(mode="json") (main.py:221): uuids and datetimes become
\* their texts.  json.dumps and json.loads (cache.py:47, cache.py:37) keep a
\* structure of lists, texts, integers and nulls as it is.
model_dump(page) ==
    [items |-> [i \in 1..Len(page.items) |->
                    [page.items[i] EXCEPT !.id = uuid_str(@),
                                          !.created_at = isoformat(@)]],
     next_cursor |-> page.next_cursor]

\* CursorPage(**cached) (main.py:172): pydantic parses the texts back.
CursorPage(cached) ==
    [items |-> [i \in 1..Len(cached.items) |->
                    [cached.items[i] EXCEPT !.id = uuid_parse(@),
                                            !.created_at = fromisoformat(@)]],
     next_cursor |-> cached.next_cursor]

\* ----------------------------------------------------------- requests
\* A request in a slot: the locals of the handler, its place in the code
\* (pc), its response, and what it did: the number of store queries and of
\* cache SETs, the posts its select saw (store), the comments its count
\* saw (counted), the rows the tables held when it came (began), the body
\* of a POST /posts (payload), and the calls of cache_get_json and
\* cache_set_json it made (cache_calls).
NoPayload ==
    [type |-> NoneStr, title |-> NoneStr, body |-> NoneStr, link_url |-> NoneStr,
     image_url |-> NoneStr, author_name |-> NoneStr]

Idle ==
    [op |-> "idle", pc |-> "idle", asked |-> 0, limit |-> 0, cursor |-> NoCursor,
     client |-> "any", rows |-> <<>>, has_more |-> FALSE, page |-> NoPage,
     status |-> 0, error |-> "", queries |-> 0, cache_sets |-> 0, hit |-> FALSE,
     store |-> {}, counted |-> {}, began |-> 0, payload |-> NoPayload,
     cache_calls |-> 0]

\* posts and comments are only ever inserted: the rows count the writes
WritesDone == Cardinality(posts) + Cardinality(comments)

\* A request is served in the first slot that holds no request in progress
\* and no response its client has yet to read.
Vacant(r) == reqs[r].pc \in {"idle", "done"} /\ reqs[r].client = "any"
Free(r) == Vacant(r) /\ \A k \in Slots : k < r => ~Vacant(k)

Finish(q, status, error, page) ==
    [q EXCEPT !.pc = "done", !.status = status, !.error = error, !.page = page]

\* a response of list_posts as its client sees it
Noted(q) ==
    [limit |-> q.asked, cursor |-> q.cursor, status |-> q.status, page |-> q.page,
     hit |-> q.hit, at |-> now]

\* cache.py:25-39.  [raised, made, hit, value]: raised is an exception that
\* leaves cache_get_json (only get_redis can raise one outside the try
\* blocks); hit is a value that is not None.
cache_get_json(key) ==
    LET g == get_redis IN
    IF g.raised THEN [raised |-> TRUE, made |-> FALSE, hit |-> FALSE, value |-> NoPage]
    ELSE IF g.client = NoClient \/ ~redis_up \/ Live(key) = {}
    THEN [raised |-> FALSE, made |-> g.made, hit |-> FALSE, value |-> NoPage]
    ELSE [raised |-> FALSE, made |-> g.made, hit |-> TRUE,
          value |-> (CHOOSE e \in Live(key) : TRUE).value]

\* cache.py:42-54.  [raised, made, wrote, keyspace]: the keyspace after the
\* call, and whether SET was executed.
\* SET key data EX ttl replaces the entry of the key.
cache_set_json(key, value, ttl_seconds) ==
    LET g == get_redis IN
    IF g.raised THEN [raised |-> TRUE, made |-> FALSE, wrote |-> FALSE, keyspace |-> cache]
    ELSE IF g.client = NoClient \/ ~redis_up
    THEN [raised |-> FALSE, made |-> g.made, wrote |-> FALSE, keyspace |-> cache]
    ELSE [raised |-> FALSE, made |-> g.made, wrote |-> TRUE,
          keyspace |-> {e \in cache : e.key # key}
                          \cup {[key |-> key, value |-> value, exp |-> now + ttl_seconds]}]

\* main.py:165-172: the clamp, the cache read, and the page of a hit
list_posts_begin(r, limit, cursor, client) ==
    LET q == [Idle EXCEPT !.op = "list_posts", !.asked = limit,
                          !.limit = ClampLimit(limit), !.cursor = cursor,
                          !.client = client, !.began = WritesDone,
                          !.cache_calls = 1]
        cached == cache_get_json(cache_key(q.limit, cursor))
    IN  /\ _redis' = IF cached.made THEN Client ELSE _redis
        /\ reqs' = [reqs EXCEPT ![r] =
                IF cached.raised THEN Finish(q, 500, "AttributeError", NoPage)
                ELSE IF cached.hit
                THEN [Finish(q, 200, "", CursorPage(cached.value)) EXCEPT !.hit = TRUE]
                ELSE [q EXCEPT !.pc = "query"]]

\* main.py:174-192: decode_cursor, the query for limit + 1 rows, the cut
list_posts_query(r) ==
    LET q == reqs[r]
        bound == IF q.cursor # NoCursor THEN decode_cursor(q.cursor) ELSE <<>>
        rows == SelectPosts(posts, q.limit + 1, bound)
        kept == Take(rows, q.limit)
    IN  /\ q.op = "list_posts" /\ q.pc = "query"
        /\ reqs' = [reqs EXCEPT ![r] =
                IF bound = InvalidCursor THEN Finish(q, 400, "Invalid cursor", NoPage)
                ELSE [q EXCEPT !.rows = kept, !.has_more = Len(rows) > q.limit,
                               !.queries = 1, !.store = posts,
                               !.pc = IF Len(kept) > 0 THEN "counts" ELSE "page"]]
        /\ UNCHANGED <<settings, _redis, redis_up, cache, posts, comments, now, walk, codec, reads>>

\* main.py:194-201: the grouped count, only when the page has posts
list_posts_counts(r) ==
    LET q == reqs[r] IN
    /\ q.op = "list_posts" /\ q.pc = "counts"
    /\ reqs' = [reqs EXCEPT ![r] =
            [q EXCEPT !.queries = @ + 1, !.pc = "set", !.counted = comments,
                      !.page = [items |-> [i \in 1..Len(q.rows) |->
                                              PostResponse(q.rows[i], comments)],
                                next_cursor |-> NextCursor(q.rows, q.has_more)]]]
    /\ UNCHANGED <<settings, _redis, redis_up, cache, posts, comments, now, walk, codec, reads>>

\* main.py:203-219 for a page without posts: no count query is issued
list_posts_empty(r) ==
    LET q == reqs[r] IN
    /\ q.op = "list_posts" /\ q.pc = "page"
    /\ reqs' = [reqs EXCEPT ![r] =
            [q EXCEPT !.pc = "set",
                      !.page = [items |-> <<>>,
                                next_cursor |-> NextCursor(q.rows, q.has_more)]]]
    /\ UNCHANGED <<settings, _redis, redis_up, cache, posts, comments, now, walk, codec, reads>>

\* main.py:221-222: the cache write and the response
list_posts_set(r) ==
    LET q == reqs[r]
        w == cache_set_json(cache_key(q.limit, q.cursor), model_dump(q.page), FeedTtl)
    IN  /\ q.op = "list_posts" /\ q.pc = "set"
        /\ _redis' = IF w.made THEN Client ELSE _redis
        /\ cache' = w.keyspace
        /\ reqs' = [reqs EXCEPT ![r] =
                IF w.raised THEN Finish(q, 500, "AttributeError", NoPage)
                ELSE [Finish(q, 200, "", q.page) EXCEPT
                         !.cache_sets = IF w.wrote THEN 1 ELSE 0,
                         !.cache_calls = @ + 1]]
        /\ UNCHANGED <<settings, redis_up, posts, comments, now, walk, codec, reads>>

\* ------------------------------------------------------------- writes
\* The request bodies tried (schemas.py:38-44), valid and not.
PostPayloads ==
    { [type |-> "text", title |-> NoneStr, body |-> "hello", link_url |-> NoneStr,
       image_url |-> NoneStr, author_name |-> NoneStr],
      [type |-> "text", title |-> NoneStr, body |-> "", link_url |-> NoneStr,
       image_url |-> NoneStr, author_name |-> NoneStr],
      [type |-> "link", title |-> NoneStr, body |-> NoneStr, link_url |-> NoneStr,
       image_url |-> NoneStr, author_name |-> NoneStr] }
Principals == {NoneStr} \cup Users
Anonymous == {NoneStr}

Falsy(v) == v \in {NoneStr, ""}

\* create_post without the check of main.py:236-237 for photo posts
InvalidPost_no_photo_check(payload) ==
    \/ (payload.type = "text" /\ payload.body \in {NoneStr, ""})
    \/ (payload.type = "link" /\ payload.link_url \in {NoneStr, ""})

\* main.py:232-237
InvalidPost(payload) ==
    \/ (payload.type = "text" /\ Falsy(payload.body))
    \/ (payload.type = "link" /\ Falsy(payload.link_url))
    \/ (payload.type = "photo" /\ Falsy(payload.image_url))

\* create_post storing author_name=author_name for every request, in place
\* of line 248
NewPost_keeps_label(payload, user, id, created_at) ==
    [id |-> id, created_at |-> created_at, type |-> payload.type,
     title |-> payload.title, body |-> payload.body,
     link_url |-> IF payload.link_url \in {NoneStr, ""} THEN NoneStr
                  ELSE payload.link_url,
     image_url |-> IF payload.image_url \in {NoneStr, ""} THEN NoneStr
                   ELSE payload.image_url,
     author_id |-> IF user # NoneStr THEN user ELSE NoneStr,
     author_name |-> IF user # NoneStr THEN Username(user)
                     ELSE IF payload.author_name \in {NoneStr, ""} THEN "Guest"
                     ELSE payload.author_name]

\* main.py:239-249, with the id (models.py:38, uuid4) and the created_at
\* (models.py:39, the server's now()) the insert gives the row
NewPost(payload, user, id, created_at) ==
    LET author_name == IF user # NoneStr THEN Username(user)
                       ELSE IF Falsy(payload.author_name) THEN "Guest"
                       ELSE payload.author_name
    IN  [id |-> id, created_at |-> created_at, type |-> payload.type,
         title |-> payload.title, body |-> payload.body,
         link_url |-> IF Falsy(payload.link_url) THEN NoneStr ELSE payload.link_url,
         image_url |-> IF Falsy(payload.image_url) THEN NoneStr ELSE payload.image_url,
         author_id |-> IF user # NoneStr THEN user ELSE NoneStr,
         author_name |-> IF user # NoneStr THEN NoneStr ELSE author_name]

\* create_post refreshing the feed's first page after the commit, by a
\* cache_set_json call such as list_posts makes at main.py:221
create_post_refreshing_feed(r, payload, user) ==
    LET q == [Idle EXCEPT !.op = "create_post", !.payload = payload]
        w == cache_set_json(cache_key(DefaultLimit, NoCursor), NoPage, FeedTtl)
    IN  /\ Free(r)
        /\ IF InvalidPost(payload)
           THEN /\ reqs' = [reqs EXCEPT ![r] = Finish(q, 400, "required field", NoPage)]
                /\ UNCHANGED <<posts, reads, cache, _redis>>
           ELSE \E id \in PostIds \ {p.id : p \in posts} :
                /\ posts' = posts \cup {NewPost(payload, user, id, now * TicksPerSec)}
                /\ _redis' = IF w.made THEN Client ELSE _redis
                /\ cache' = w.keyspace
                /\ reqs' = [reqs EXCEPT ![r] =
                        [(IF w.raised THEN Finish(q, 500, "AttributeError", NoPage)
                          ELSE Finish(q, 201, "", NoPage))
                         EXCEPT !.cache_calls = 1]]
                /\ reads' = <<>>
        /\ UNCHANGED <<settings, redis_up, comments, now, walk, codec>>

\* main.py:225-264
create_post(r, payload, user) ==
    LET q == [Idle EXCEPT !.op = "create_post", !.payload = payload] IN
    /\ Free(r)
    /\ IF InvalidPost(payload)
       THEN /\ reqs' = [reqs EXCEPT ![r] = Finish(q, 400, "required field", NoPage)]
            /\ UNCHANGED <<posts, reads>>
       ELSE \E id \in PostIds \ {p.id : p \in posts} :
            /\ posts' = posts \cup {NewPost(payload, user, id, now * TicksPerSec)}
            /\ reqs' = [reqs EXCEPT ![r] = Finish(q, 201, "", NoPage)]
            /\ reads' = <<>>
    /\ UNCHANGED <<settings, _redis, redis_up, cache, comments, now, walk, codec>>

\* models.py:59 (uuid4): a comment's id is never read by the feed, so the
\* model takes the least unused one.
FreshCommentId ==
    LET unused == CommentIds \ {c.id : c \in comments}
    IN  {id \in unused : \A other \in unused : id <= other}

\* main.py:288-316
create_comment(r, post_id, author_name, user) ==
    LET q == [Idle EXCEPT !.op = "create_comment"] IN
    /\ Free(r)
    /\ IF post_id \notin {p.id : p \in posts}
       THEN /\ reqs' = [reqs EXCEPT ![r] = Finish(q, 404, "Post not found", NoPage)]
            /\ UNCHANGED <<comments, reads>>
       ELSE \E id \in FreshCommentId :
            /\ comments' = comments \cup
                   {[id |-> id, post_id |-> post_id, body |-> "nice",
                     author_id |-> IF user # NoneStr THEN user ELSE NoneStr,
                     author_name |-> IF user # NoneStr THEN NoneStr
                                     ELSE IF Falsy(author_name) THEN "Guest"
                                     ELSE author_name]}
            /\ reqs' = [reqs EXCEPT ![r] = Finish(q, 201, "", NoPage)]
            /\ reads' = <<>>
    /\ UNCHANGED <<settings, _redis, redis_up, cache, posts, now, walk, codec>>

\* ------------------------------------------------------------ clients
LimitInputs == {0, 2, 1000}

\* Tokens no encode_cursor call returns: a lone character outside the
\* alphabet, the texts {} and [], a cut token, a timestamp and an id that do
\* not parse.
BadCursors ==
    { <<JunkChar>>,
      rstrip_pad(b64encode(<<LBrace, RBrace>>)),
      rstrip_pad(b64encode(<<LBracket, RBracket>>)),
      SubSeq(encode_cursor(0, 1), 1, Len(encode_cursor(0, 1)) - 1),
      rstrip_pad(b64encode(json_dumps_cursor(<<120, 120>>, uuid_str(1)))),
      rstrip_pad(b64encode(json_dumps_cursor(isoformat(0), <<122>>))) }

CursorInputs ==
    {NoCursor} \cup {encode_cursor(p.created_at, p.id) : p \in posts} \cup BadCursors

list_posts(r) ==
    /\ Free(r)
    /\ \E limit \in LimitInputs, cursor \in CursorInputs :
           list_posts_begin(r, limit, cursor, "any")
    /\ UNCHANGED <<settings, redis_up, cache, posts, comments, now, walk, codec, reads>>

\* The feed's specifications take the writes of guests; who wrote a post
\* changes no step of list_posts but the name it shows.
CreatePost(r) ==
    \E payload \in PostPayloads, user \in Anonymous : create_post(r, payload, user)

CreateComment(r) ==
    \E post_id \in PostIds, user \in Anonymous :
        create_comment(r, post_id, NoneStr, user)

NoWalk == [state |-> "idle", limit |-> 0, cursor |-> NoCursor, acc |-> <<>>, snap |-> {}]

\* The client asks for the first page, or for the page after next_cursor.
WalkCall(r) ==
    /\ Free(r)
    /\ \/ /\ walk.state \in {"idle", "done", "failed"}
          /\ \E limit \in LimitInputs :
                 /\ walk' = [NoWalk EXCEPT !.state = "waiting", !.limit = limit,
                                           !.snap = {p.id : p \in posts}]
                 /\ list_posts_begin(r, limit, NoCursor, "walk")
       \/ /\ walk.state = "more"
          /\ walk' = [walk EXCEPT !.state = "waiting"]
          /\ list_posts_begin(r, walk.limit, walk.cursor, "walk")
    /\ UNCHANGED <<settings, redis_up, cache, posts, comments, now, codec, reads>>

\* The client reads the response and keeps the items and the next_cursor.
WalkReceive(r) ==
    LET q == reqs[r] IN
    /\ q.client = "walk" /\ q.pc = "done"
    /\ walk' = IF q.status # 200 THEN [walk EXCEPT !.state = "failed"]
               ELSE [walk EXCEPT
                        !.acc = @ \o [i \in 1..Len(q.page.items) |-> q.page.items[i].id],
                        !.cursor = q.page.next_cursor,
                        !.state = IF q.page.next_cursor = NoCursor THEN "done"
                                  ELSE "more"]
    /\ reqs' = [reqs EXCEPT ![r] = Idle]
    /\ UNCHANGED <<settings, _redis, redis_up, cache, posts, comments, now, codec, reads>>

\* A client reads a page and then asks for the same page again.  A write
\* that succeeds in between empties reads, and a response is not kept when
\* a write succeeded while its request was served.
RepeatCall(r) ==
    /\ Free(r)
    /\ \A k \in Slots : reqs[k].client # "repeat"
    /\ \/ /\ Len(reads) # 1
          /\ reads' = <<>>
          /\ \E limit \in LimitInputs, cursor \in CursorInputs :
                 list_posts_begin(r, limit, cursor, "repeat")
       \/ /\ Len(reads) = 1
          /\ UNCHANGED reads
          /\ list_posts_begin(r, reads[1].limit, reads[1].cursor, "repeat")
    /\ UNCHANGED <<settings, redis_up, cache, posts, comments, now, walk, codec>>

RepeatReceive(r) ==
    LET q == reqs[r] IN
    /\ q.client = "repeat" /\ q.pc = "done"
    /\ reads' = IF q.began # WritesDone THEN <<>>
                ELSE IF Len(reads) = 1 /\ reads[1].limit = q.asked
                        /\ reads[1].cursor = q.cursor
                THEN Append(reads, Noted(q))
                ELSE <<Noted(q)>>
    /\ reqs' = [reqs EXCEPT ![r] = Idle]
    /\ UNCHANGED <<settings, _redis, redis_up, cache, posts, comments, now, walk, codec>>

\* ---------------------------------------------------- the codec alone
Datetimes == 0..(MaxSec * TicksPerSec + TicksPerSec - 1)
Uuids == 0..MaxUuid

CodecEncode ==
    /\ \E dt \in Datetimes, u \in Uuids :
           codec' = [in |-> <<dt, u>>, tok |-> encode_cursor(dt, u), out |-> <<>>,
                     intact |-> TRUE]
    /\ UNCHANGED <<settings, _redis, redis_up, cache, posts, comments, now, reqs, walk, reads>>

\* the token loses its last character on the way
CodecCut ==
    /\ Len(codec.tok) > 0 /\ codec.intact
    /\ codec' = [codec EXCEPT !.tok = SubSeq(@, 1, Len(@) - 1), !.out = <<>>,
                              !.intact = FALSE]
    /\ UNCHANGED <<settings, _redis, redis_up, cache, posts, comments, now, reqs, walk, reads>>

CodecDecode ==
    /\ Len(codec.tok) > 0 /\ codec.out = <<>>
    /\ codec' = [codec EXCEPT !.out = decode_cursor(codec.tok)]
    /\ UNCHANGED <<settings, _redis, redis_up, cache, posts, comments, now, reqs, walk, reads>>

\* A second passes; redis drops the entries whose time is over.
Tick ==
    /\ now < MaxClock
    /\ now' = now + 1
    /\ cache' = {e \in cache : e.exp > now + 1}
    /\ UNCHANGED <<settings, _redis, redis_up, posts, comments, reqs, walk, codec, reads>>

\* ---------------------------------------------------- specification
NoCodec == [in |-> InvalidCursor, tok |-> <<>>, out |-> <<>>, intact |-> FALSE]

Init ==
    /\ settings = DeclaredSettings
    /\ _redis = NoClient
    /\ redis_up = TRUE
    /\ cache = {}
    /\ posts = {}
    /\ comments = {}
    /\ now = 0
    /\ reqs = [r \in Slots |-> Idle]
    /\ walk = NoWalk
    /\ codec = NoCodec
    /\ reads = <<>>

\* The service under requests of any kind, one at a time or interleaved.
Next ==
    \/ \E r \in Slots : list_posts(r)
    \/ \E r \in Slots : CreatePost(r)
    \/ \E r \in Slots : CreateComment(r)
    \/ Tick

Spec == Init /\ [][Next]_vars

\* The service with a client that walks the feed while others post.
NextWalk ==
    \/ \E r \in Slots : WalkCall(r)
    \/ \E r \in Slots : WalkReceive(r)
    \/ \E r \in Slots : CreatePost(r)
    \/ Tick

SpecWalk == Init /\ [][NextWalk]_vars

NextCodec == CodecEncode \/ CodecCut \/ CodecDecode

SpecCodec == Init /\ [][NextCodec]_vars

\* The service with a client that reads a page twice.
NextRepeat ==
    \/ \E r \in Slots : RepeatCall(r)
    \/ \E r \in Slots : RepeatReceive(r)
    \/ \E r \in Slots : CreatePost(r)
    \/ \E r \in Slots : CreateComment(r)
    \/ Tick

SpecRepeat == Init /\ [][NextRepeat]_vars

\* ------------------------------------------------- the writes alone
\* Request bodies of POST /posts as pydantic lets them through
\* (schemas.py:38-44): body is any text or None, link_url and image_url a
\* URL or None, author_name a text or None.
WritePayloads ==
    { [NoPayload EXCEPT !.type = "text"],
      [NoPayload EXCEPT !.type = "text", !.body = ""],
      [NoPayload EXCEPT !.type = "text", !.body = "hello"],
      [NoPayload EXCEPT !.type = "text", !.body = "hello", !.author_name = "bob"],
      [NoPayload EXCEPT !.type = "text", !.link_url = "http://l/"],
      [NoPayload EXCEPT !.type = "link"],
      [NoPayload EXCEPT !.type = "link", !.body = "hello"],
      [NoPayload EXCEPT !.type = "link", !.link_url = "http://l/"],
      [NoPayload EXCEPT !.type = "photo"],
      [NoPayload EXCEPT !.type = "photo", !.link_url = "http://l/"],
      [NoPayload EXCEPT !.type = "photo", !.image_url = "http://i/",
                        !.author_name = "bob"] }

\* author_name of a comment's body (schemas.py:61)
CommentAuthors == {NoneStr, "bob"}

SubmitPost(r) ==
    /\ WritesDone < MaxWrites
    /\ \E payload \in WritePayloads, user \in Principals : create_post(r, payload, user)

SubmitComment(r) ==
    /\ WritesDone < MaxWrites
    /\ \E post_id \in PostIds, author_name \in CommentAuthors, user \in Principals :
        create_comment(r, post_id, author_name, user)

\* The service under write requests of guests and of users.
NextWrites ==
    \/ \E r \in Slots : SubmitPost(r)
    \/ \E r \in Slots : SubmitComment(r)

SpecWrites == Init /\ [][NextWrites]_vars

\* --------------------------------------- the code past get_redis
\* What list_posts and the cache helpers do once settings.redis_url can be
\* read: the same actions, started with a Settings object that has the
\* field, unset or set, and a redis that may stop answering.  Nothing below
\* is reachable from Init.
WithRedisUrl(v) ==
    [name \in DOMAIN DeclaredSettings \cup {"redis_url"} |->
        IF name = "redis_url" THEN v ELSE DeclaredSettings[name]]

InitDeclared ==
    /\ settings \in {WithRedisUrl(NoneStr), WithRedisUrl(RedisUrl)}
    /\ _redis = NoClient
    /\ redis_up = TRUE
    /\ cache = {}
    /\ posts = {}
    /\ comments = {}
    /\ now = 0
    /\ reqs = [r \in Slots |-> Idle]
    /\ walk = NoWalk
    /\ codec = NoCodec
    /\ reads = <<>>

\* redis stops or starts answering (RedisError on every call while down)
RedisFlip ==
    /\ HasSetting("redis_url")
    /\ redis_up' = ~redis_up
    /\ UNCHANGED <<settings, _redis, cache, posts, comments, now, reqs, walk, codec, reads>>

ListSteps ==
    \/ \E r \in Slots : list_posts_query(r)
    \/ \E r \in Slots : list_posts_counts(r)
    \/ \E r \in Slots : list_posts_empty(r)
    \/ \E r \in Slots : list_posts_set(r)

NextDeclared == Next \/ ListSteps \/ RedisFlip
SpecDeclared == InitDeclared /\ [][NextDeclared]_vars

NextWalkDeclared == NextWalk \/ ListSteps
SpecWalkDeclared == InitDeclared /\ [][NextWalkDeclared]_vars

NextRepeatDeclared == NextRepeat \/ ListSteps
SpecRepeatDeclared == InitDeclared /\ [][NextRepeatDeclared]_vars

\* ------------------------------------------------------------- claims
ListDone(q) == q.op = "list_posts" /\ q.pc = "done"
Malformed(cursor) == cursor # NoCursor /\ decode_cursor(cursor) = InvalidCursor
BoundOf(cursor) == IF cursor = NoCursor THEN <<>> ELSE decode_cursor(cursor)
Ids(rows) == [i \in 1..Len(rows) |-> rows[i].id]
Range(seq) == {seq[i] : i \in 1..Len(seq)}
NoDuplicates(seq) == \A i, j \in 1..Len(seq) : seq[i] = seq[j] => i = j

\* the page the planner computes from the rows the request's queries saw
PlanPage(q) ==
    LET rows == SelectPosts(q.store, q.limit + 1, BoundOf(q.cursor))
        kept == Take(rows, q.limit)
    IN  [items |-> [i \in 1..Len(kept) |-> PostResponse(kept[i], q.counted)],
         next_cursor |-> NextCursor(kept, Len(rows) > q.limit)]

\* The configuration gives no redis: the cache is disabled.
CacheDisabled == IF HasSetting("redis_url") THEN Falsy(settings.redis_url) ELSE TRUE

\* C1: a walk from the empty cursor over a store that did not change since
\* the walk began, once it has ended, has returned exactly the stored posts,
\* once each, in descending (created_at, id) order.
C1_WalkReturnsSnapshot ==
    (walk.state \in {"done", "failed"} /\ {p.id : p \in posts} = walk.snap)
        => walk.acc = Ids(SortDesc(posts))

\* C2: a walk that ran while posts were created, once it has ended, has
\* returned no post twice and every post that was stored when it began.
C2_WalkNoSkipNoRepeat ==
    walk.state \in {"done", "failed"}
        => (NoDuplicates(walk.acc) /\ walk.snap \subseteq Range(walk.acc))

\* C4: two reads of the same (limit, cursor) within the TTL with no write in
\* between return identical pages, be the second a hit or a miss.
C4_RepeatedReadSamePage ==
    (Len(reads) = 2 /\ ~Malformed(reads[1].cursor)
        /\ reads[2].at - reads[1].at < FeedTtl)
        => (reads[1].status = 200 /\ reads[2].status = 200
            /\ reads[1].page = reads[2].page)

\* C5: with the cache disabled by configuration every list_posts call
\* returns, without error, the page the planner computes from the store;
\* nothing is read from the cache and nothing is written to it.
C5_DegradesToPlanner ==
    CacheDisabled =>
        /\ cache = {}
        /\ \A r \in Slots :
               (ListDone(reqs[r]) /\ ~Malformed(reqs[r].cursor))
                   => /\ reqs[r].status = 200
                      /\ reqs[r].page = PlanPage(reqs[r])
                      /\ ~reqs[r].hit /\ reqs[r].cache_sets = 0

\* C6: decode_cursor(encode_cursor(timestamp, id)) is (timestamp, id), and no
\* other pair has the same token.
C6_RoundTrip ==
    codec.intact =>
        /\ codec.out # <<>> => codec.out = codec.in
        /\ \A dt \in Datetimes, u \in Uuids :
               encode_cursor(dt, u) = codec.tok => <<dt, u>> = codec.in

\* a pair with a fraction of a second and a hex letter went through the codec
C6_Witness ==
    /\ codec.intact /\ codec.out = codec.in
    /\ codec.in[1] % TicksPerSec # 0 /\ codec.in[2] >= 10

\* C7: for every requested limit the page of list_posts has at least 1 and at
\* most 50 items.
C7_PageSizeInRange ==
    \A r \in Slots :
        (ListDone(reqs[r]) /\ ~Malformed(reqs[r].cursor))
            => (reqs[r].status = 200
                /\ Len(reqs[r].page.items) >= MinLimit
                /\ Len(reqs[r].page.items) <= MaxLimit)

\* C8: a request that is not answered from the cache asks the store for
\* L + 1 rows; next_cursor is present exactly when L + 1 rows came back, and
\* then decodes to the (created_at, id) of the last post of the page.
C8_CursorOfLastKeptRow ==
    \A r \in Slots :
        LET q == reqs[r]
            n == Len(q.page.items)
        IN  (ListDone(q) /\ ~q.hit /\ ~Malformed(q.cursor))
                => /\ q.status = 200 /\ q.queries >= 1
                   /\ (q.page.next_cursor # NoCursor)
                        = (Len(SelectPosts(q.store, q.limit + 1, BoundOf(q.cursor)))
                              = q.limit + 1)
                   /\ q.page.next_cursor # NoCursor
                        => decode_cursor(q.page.next_cursor)
                              = <<q.page.items[n].created_at, q.page.items[n].id>>

\* C9: a request that is not answered from the cache returns the first
\* max(1, min(n, 50)) posts, in descending (created_at, id) order, of those
\* strictly older than the cursor, or of all posts without a cursor.
C9_PageIsKeysetPrefix ==
    \A r \in Slots :
        LET q == reqs[r]
            bound == BoundOf(q.cursor)
            cand == IF bound = <<>> THEN q.store
                    ELSE {p \in q.store : StrictlyOlder(p, bound[1], bound[2])}
        IN  (ListDone(q) /\ ~q.hit /\ ~Malformed(q.cursor))
                => /\ q.status = 200
                   /\ Ids(q.page.items) = Ids(Take(SortDesc(cand), ClampLimit(q.asked)))

\* C10: a request with a malformed cursor fails with HTTP 400 "Invalid
\* cursor", returns no page, queries the store for nothing and writes
\* nothing to the cache.
C10_MalformedCursorIs400 ==
    \A r \in Slots :
        (ListDone(reqs[r]) /\ Malformed(reqs[r].cursor))
            => (reqs[r].status = 400 /\ reqs[r].error = "Invalid cursor"
                /\ reqs[r].page = NoPage
                /\ reqs[r].queries = 0 /\ reqs[r].cache_sets = 0)

\* the field a post of the payload's type must carry (the claim's table)
RequiredField(payload) ==
    IF payload.type = "text" THEN payload.body
    ELSE IF payload.type = "link" THEN payload.link_url
    ELSE payload.image_url

PostDone(q) == q.op = "create_post" /\ q.pc = "done"

\* C11: create_post answers 400 to a payload without the non-empty field
\* its type requires and leaves the store as it was; it answers 201 to a
\* payload that carries the field and adds exactly one post; every stored
\* post carries the non-empty field required by its type.
C11_RequiredFieldOrRejected ==
    /\ [](/\ \A r \in Slots :
               PostDone(reqs[r]) =>
                   reqs[r].status = IF RequiredField(reqs[r].payload) \in {NoneStr, ""}
                                    THEN 400 ELSE 201
          /\ \A p \in posts : RequiredField(p) \notin {NoneStr, ""})
    /\ [][\A r \in Slots :
             (PostDone(reqs'[r]) /\ (reqs'[r] # reqs[r] \/ posts' # posts))
                 => IF reqs'[r].status = 400 THEN posts' = posts
                    ELSE /\ posts \subseteq posts'
                         /\ Cardinality(posts') = Cardinality(posts) + 1]_vars

\* a link post with its link_url was stored after a photo post without
\* image_url was refused
C11_Witness ==
    /\ \E p \in posts : p.type = "link" /\ p.link_url = "http://l/"
    /\ \E r \in Slots :
           /\ PostDone(reqs[r]) /\ reqs[r].status = 400
           /\ reqs[r].payload.type = "photo"

\* C12: a request that is not answered from the cache returns a page in
\* which every item's comment_count is the number of comments stored for
\* that post when the counts were read (0 when it has none); the counts
\* take one store query, made only when the page has items.
C12_CommentCountsOnePass ==
    \A r \in Slots :
        LET q == reqs[r]
            n == Len(q.page.items)
        IN  (ListDone(q) /\ ~q.hit /\ ~Malformed(q.cursor))
                => /\ q.status = 200
                   /\ \A i \in 1..n :
                          q.page.items[i].comment_count
                              = Cardinality({c \in q.counted :
                                                c.post_id = q.page.items[i].id})
                   /\ q.queries = IF n > 0 THEN 2 ELSE 1

\* C13: no stored post or comment has both an author_id and an
\* author_name: a row written for a principal has the author_id and no
\* author_name, a row written for a guest has no author_id and the name
\* supplied, or "Guest".
C13_AuthorIdXorName ==
    \A row \in posts \cup {[author_id |-> c.author_id, author_name |-> c.author_name]
                               : c \in comments} :
        IF row.author_id # NoneStr
        THEN row.author_id \in Users /\ row.author_name = NoneStr
        ELSE row.author_name \in {"Guest", "bob"}

\* a user's post, a guest's post under a supplied name and a user's comment
\* are stored
C13_Witness ==
    /\ \E p \in posts : p.author_id \in Users
    /\ \E p \in posts : p.author_id = NoneStr /\ p.author_name = "bob"
    /\ \E c \in comments : c.author_id \in Users

WriteDone(q) == q.op \in {"create_post", "create_comment"} /\ q.pc = "done"

PlannedFrom(S, Cs, limit, cursor) ==
    LET rows == SelectPosts(S, limit + 1, BoundOf(cursor))
        kept == Take(rows, limit)
    IN  [items |-> [i \in 1..Len(kept) |-> PostResponse(kept[i], Cs)],
         next_cursor |-> NextCursor(kept, Len(rows) > limit)]

\* C15: the cache holds one value per key, and the value under the key of
\* (limit, cursor) is a page the planner computed for that limit and cursor
\* from posts and comments the store held: at most limit items, all
\* strictly older than the cursor, in strictly descending order.
C15_CachedValueIsPlannerPage ==
    \A e \in cache :
        /\ \A other \in cache : other.key = e.key => other = e
        /\ \E S \in SUBSET posts, Cs \in SUBSET comments :
               e.value = model_dump(PlannedFrom(S, Cs, e.key[2], e.key[3]))
        /\ LET page == CursorPage(e.value)
               n == Len(page.items)
               bound == BoundOf(e.key[3])
           IN  /\ n <= e.key[2]
               /\ \A i \in 1..n : \A j \in 1..n :
                      i < j => Before(page.items[i], page.items[j])
               /\ bound # <<>> =>
                      \A i \in 1..n : StrictlyOlder(page.items[i], bound[1], bound[2])
====
